---- MODULE Spec2Model ----
(***************************************************************************)
(* GeoVoice enrichment scripts: the batch jobs that scan the `spots` table *)
(* and backfill translations, categories, images, countries and years.     *)
(*                                                                         *)
(* One behaviour is one run of one script (the variable `script` says      *)
(* which).  A run scans the store, then walks the scanned list; every loop *)
(* iteration is one action.  The external services (Gemini, Wikipedia,     *)
(* Pixabay, Mapbox, Supabase) answer nondeterministically.                 *)
(***************************************************************************)
EXTENDS Integers, Sequences, FiniteSets, TLC

(***************************************************************************)
(* Bounds of the model.                                                    *)
(***************************************************************************)
\* largest number of rows in the store
MaxN == 3
\* largest number of rows lacking something in a store that a script walks
\* row by row (the scripts that select their targets get any store)
MaxGaps == 1
\* rows per page: the scripts use 1000 (tools/translate-all.js:30), scaled
\* down so that a store of MaxN rows spans several pages
pageSize == 2
\* number of rate-limit answers the text provider may give in one run
MaxRateLimits == 2

(***************************************************************************)
(* JavaScript values: null, strings (with their length) and numbers.       *)
(***************************************************************************)
Null == [t |-> "null"]
Str(s, n) == [t |-> "str", s |-> s, len |-> n]
Num(n) == [t |-> "num", n |-> n]
\* a non-empty string of decimal digits, as a number input holds it
NumStr(ds) == [t |-> "numstr", digits |-> ds]

\* !v in JavaScript: null, the empty string and 0 are falsy
Falsy(v) == \/ v.t = "null"
            \/ (v.t = "str" /\ v.len = 0)
            \/ (v.t = "num" /\ v.n = 0)

EmptyStr == Str("", 0)
\* a value that is non-null but shorter than every length threshold
ShortStr == Str("short", 5)
\* values already in the store before the run
Old(f) == Str("old", 40)
\* values produced by the text provider in this run
New(f) == Str("new", 40)

(***************************************************************************)
(* The spots table.                                                        *)
(***************************************************************************)
Locales == {"ja", "en", "zh", "es", "fr"}
NameOf(L) == CASE L = "ja" -> "name_ja" [] L = "en" -> "name_en"
               [] L = "zh" -> "name_zh" [] L = "es" -> "name_es"
               [] OTHER -> "name_fr"
DescOf(L) == CASE L = "ja" -> "description_ja" [] L = "en" -> "description_en"
               [] L = "zh" -> "description_zh" [] L = "es" -> "description_es"
               [] OTHER -> "description_fr"
LocaleFields == {NameOf(L) : L \in Locales} \cup {DescOf(L) : L \in Locales}

Columns == {"id", "name", "description", "image_url", "category",
            "country", "country_ja", "year"} \cup LocaleFields

\* a row in which nothing is missing
FullSpot(k) == [c \in Columns |->
                  CASE c = "id" -> Num(k)
                    [] c = "year" -> Num(1603)
                    [] c = "category" -> Str("nature", 6)
                    [] OTHER -> Old(c)]
\* a row as the generators insert it: name and description only
FreshSpot(k) == [c \in Columns |->
                  CASE c = "id" -> Num(k)
                    [] c \in {"name", "description"} -> Old(c)
                    [] OTHER -> Null]
\* a row whose Japanese description is present but too short, without image
WeakSpot(k) == [FullSpot(k) EXCEPT !["description_ja"] = ShortStr,
                                   !["image_url"] = Null]

\* a complete row but for its name
NamelessSpot(k) == [FullSpot(k) EXCEPT !["name"] = Null]

\* a complete row whose stored year is 0
ZeroYearSpot(k) == [FullSpot(k) EXCEPT !["year"] = Num(0)]

Templates == {"full", "fresh", "weak"}
MakeSpot(tpl, k) == CASE tpl = "full" -> FullSpot(k)
                      [] tpl = "fresh" -> FreshSpot(k)
                      [] tpl = "nameless" -> NamelessSpot(k)
                      [] tpl = "zero" -> ZeroYearSpot(k)
                      [] OTHER -> WeakSpot(k)

Scripts == {"translateAll", "fullRepair", "updateImages", "fixCategory",
            "aiCountries", "translateSpots", "updateCountries", "yearBatch"}

\* the scripts that look images up
ImageScripts == {"fullRepair", "updateImages"}

VARIABLES
  script,      \* the script this run executes
  PIXABAY_KEY, \* TRUE iff VITE_PIXABAY_API_KEY is configured
  env,         \* the names of the other environment variables that are set
  prev,        \* what an earlier, stopped run of the script left behind
  store,       \* the spots table: store[k] is the row with id k
  pc,          \* "start", "exit", "count", "scan", "loop", "done" or "crashed"
  page,        \* page index of the scanner
  rangeStart,  \* first row of the next range (country script)
  hasNext,     \* scanner flag
  scanError,   \* TRUE once a read has failed
  reads,       \* number of row reads issued so far
  allSpots,    \* rows the loop walks (snapshots taken by the reads)
  i,           \* loop index (0-based, as in the scripts)
  rlLeft,      \* rate-limit answers the provider may still give
  cur,         \* what the latest loop iteration did
  calc         \* a function of the application, its arguments and its result

config == <<script, PIXABAY_KEY, env, prev>>
scanVars == <<page, rangeStart, hasNext, scanError, reads, allSpots>>
loopVars == <<i, rlLeft, cur>>
vars == <<config, store, pc, scanVars, loopVars, calc>>

N == Len(store)
Ids == 1..N

(***************************************************************************)
(* Supabase: reads and partial updates.                                    *)
(***************************************************************************)
Min(a, b) == IF a < b THEN a ELSE b

\* a request returns at most this many rows (1000 in production): more than
\* one batch of the year script
MaxRows == pageSize + 1

\* the rows 1..n, starting at row r and wrapping around
Rotation(n, r) == [j \in 1..n |-> ((r + j - 2) % n) + 1]
\* the orders in which a request without .order() may return n rows
Orders(n) == IF n = 0 THEN {<<>>} ELSE {Rotation(n, r) : r \in 1..n}
ById(n) == [j \in 1..n |-> j]

\* the table in the order `ord`
Rows(ord) == [j \in 1..Len(ord) |-> store[ord[j]]]

\* .range(from, to): rows from..to (0-based, inclusive) of the result
Range(rows, from, to) ==
  SubSeq(rows, from + 1, Min(Min(to + 1, from + MaxRows), Len(rows)))

\* .select('id, name, description'): the listed columns only
Project(rows, cols) == [k \in 1..Len(rows) |-> [c \in cols |-> rows[k][c]]]

\* .update(fields).eq('id', k): columns outside `fields` keep their value
Merge(row, fields) == [c \in Columns |->
                         IF c \in DOMAIN fields THEN fields[c] ELSE row[c]]
Update(st, k, fields) == IF k \in 1..Len(st)
                           THEN [st EXCEPT ![k] = Merge(st[k], fields)]
                           ELSE st

(***************************************************************************)
(* What one loop iteration did: the index and rows it ran on, the class of *)
(* its provider attempt, the sequence of its external effects and the      *)
(* table as it was when the iteration began.                               *)
(***************************************************************************)
Call(prov, res) == [ev |-> "call", prov |-> prov, res |-> res]
Cooldown == [ev |-> "cooldown"]
Delay == [ev |-> "delay"]
Write(k, fields, ok) == [ev |-> "write", id |-> k, fields |-> fields, ok |-> ok]

\* no function is being evaluated
NoCalc == [fn |-> "none"]
\* no run of the script came before this one
NoRun == [run |-> FALSE]

NoIter == [idx |-> -1, unit |-> {}, out |-> "none", trace |-> <<>>,
           before |-> <<>>, retryOf |-> -1]

\* the state after an iteration on `unit` that ended with class `out`
Commit(unit, out, trace, newStore, newI) ==
  /\ cur' = [idx |-> i, unit |-> unit, out |-> out, trace |-> trace,
             before |-> store,
             \* the index of the attempt just before, if it was rate-limited
             retryOf |-> IF cur.out = "rate" THEN cur.idx ELSE -1]
  /\ store' = newStore
  /\ i' = newI
  /\ rlLeft' = IF out = "rate" THEN rlLeft - 1 ELSE rlLeft
  /\ UNCHANGED <<config, calc, pc, scanVars>>

\* null and undefined have no methods: calling one throws a TypeError
Nullish(v) == v.t = "null"

\* an exception outside every try block: main() rejects and the process ends
Crash(unit, trace, newStore) ==
  /\ cur' = [idx |-> i, unit |-> unit, out |-> "crash", trace |-> trace,
             before |-> store,
             retryOf |-> IF cur.out = "rate" THEN cur.idx ELSE -1]
  /\ store' = newStore
  /\ pc' = "crashed"
  /\ UNCHANGED <<config, calc, scanVars, i, rlLeft>>

\* the end of an iteration of the image and repair loops: the progress line
\* prints spot.name.substring(0, 10), then the loop sleeps
LogAndDelay(spot, unit, out, trace, newStore) ==
  IF Nullish(spot["name"])
    THEN Crash(unit, trace, newStore)
    ELSE Commit(unit, out, trace \o <<Delay>>, newStore, i + 1)

\* the scripts that page through the whole table with order and range
PagedScripts == {"translateAll", "fullRepair", "updateImages", "fixCategory"}
\* the scripts that read every row of the table, whatever it lacks
ScannerScripts == PagedScripts \cup {"aiCountries"}

\* the environment variables a script reads at its top level
EnvNames(s) ==
  CASE s = "updateImages" -> {"VITE_SUPABASE_URL", "VITE_SUPABASE_KEY"}
    [] s = "updateCountries" ->
         {"VITE_SUPABASE_URL", "VITE_SUPABASE_KEY", "VITE_MAPBOX_TOKEN"}
    [] s = "aiCountries" ->
         {"VITE_SUPABASE_URL", "VITE_SUPABASE_ANON_KEY", "VITE_SUPABASE_KEY",
          "VITE_GEMINI_API_KEY", "VITE_GOOGLE_API_KEY"}
    [] OTHER -> {"VITE_SUPABASE_URL", "VITE_SUPABASE_KEY", "VITE_GEMINI_API_KEY"}

\* the constants of the top level; TRUE stands for a non-empty value
SUPABASE_URL == "VITE_SUPABASE_URL" \in env
SUPABASE_KEY ==
  IF script = "aiCountries"
    THEN "VITE_SUPABASE_ANON_KEY" \in env \/ "VITE_SUPABASE_KEY" \in env
    ELSE "VITE_SUPABASE_KEY" \in env
GEMINI_API_KEY ==
  IF script = "aiCountries"
    THEN "VITE_GEMINI_API_KEY" \in env \/ "VITE_GOOGLE_API_KEY" \in env
    ELSE "VITE_GEMINI_API_KEY" \in env
MAPBOX_TOKEN == "VITE_MAPBOX_TOKEN" \in env

\* a guard that tests the store settings only
MissingStoreConfig(s) == ~SUPABASE_URL \/ ~SUPABASE_KEY

\* the condition of the top-level guard that ends in process.exit(1)
MissingConfig(s) ==
  CASE s = "updateImages" -> ~SUPABASE_URL \/ ~SUPABASE_KEY
    [] s = "updateCountries" -> ~SUPABASE_URL \/ ~SUPABASE_KEY \/ ~MAPBOX_TOKEN
    [] OTHER -> ~SUPABASE_URL \/ ~SUPABASE_KEY \/ ~GEMINI_API_KEY

\* where main() begins
FirstStep(s) == IF s = "aiCountries" THEN "count" ELSE "scan"

\* the module top level: read the environment, exit or call main()
Startup ==
  /\ pc = "start"
  /\ pc' = IF MissingConfig(script) THEN "exit" ELSE FirstStep(script)
  /\ UNCHANGED <<config, calc, store, scanVars, loopVars>>

\* a run that has passed its top-level guard
Init ==
  /\ script \in Scripts
  /\ env = EnvNames(script)
  /\ prev = NoRun
  /\ PIXABAY_KEY \in (IF script \in ImageScripts THEN BOOLEAN ELSE {TRUE})
  /\ \E n \in 0..MaxN :
       \E tpl \in [1..n -> Templates] :
         /\ script \in ScannerScripts =>
              Cardinality({k \in 1..n : tpl[k] # "full"}) <= MaxGaps
         /\ store = [k \in 1..n |-> MakeSpot(tpl[k], k)]
  /\ pc = IF script = "aiCountries" THEN "count" ELSE "scan"
  /\ page = 0
  /\ rangeStart = 0
  /\ hasNext = TRUE
  /\ scanError = FALSE
  /\ reads = 0
  /\ allSpots = <<>>
  /\ i = 0
  /\ rlLeft = MaxRateLimits
  /\ cur = NoIter
  /\ calc = NoCalc

(***************************************************************************)
(* Dataset scanner of tools/translate-all.js, tools/fix-category.js,       *)
(* tools/update-images.js and the full-repair script: one page per step.   *)
(***************************************************************************)
\* the columns the scanner of a script selects
Selected(s) == IF s = "fixCategory" THEN {"id", "name", "description"}
                                    ELSE Columns

\* a scanner that also stops on a full page
IsLastPageOrFull(n) == n <= pageSize

\* if (data.length < pageSize) hasNext = false
IsLastPage(n) == n < pageSize

\* a scanner that reads the page again after a read error
ScanPageRetrying ==
  /\ pc = "scan"
  /\ script \in PagedScripts
  /\ hasNext
  /\ reads' = reads + 1
  /\ \E error \in BOOLEAN :
       LET data == Project(Range(Rows(ById(N)), page * pageSize,
                                 (page + 1) * pageSize - 1),
                           Selected(script)) IN
       IF error
         THEN /\ scanError' = TRUE
              /\ pc' = "scan"
              /\ UNCHANGED <<allSpots, page, hasNext>>
         ELSE /\ UNCHANGED scanError
              /\ IF Len(data) > 0
                   THEN /\ allSpots' = allSpots \o data
                        /\ page' = page + 1
                        /\ hasNext' = IF IsLastPage(Len(data)) THEN FALSE
                                                                ELSE hasNext
                   ELSE /\ hasNext' = FALSE
                        /\ UNCHANGED <<allSpots, page>>
              /\ pc' = IF hasNext' THEN "scan" ELSE "loop"
  /\ UNCHANGED <<config, calc, store, rangeStart, loopVars>>

ScanPage ==
  /\ pc = "scan"
  /\ script \in PagedScripts
  /\ hasNext
  /\ reads' = reads + 1
  /\ \E error \in BOOLEAN :
       LET data == Project(Range(Rows(ById(N)), page * pageSize,
                                 (page + 1) * pageSize - 1),
                           Selected(script)) IN
       IF error
         THEN \* break
              /\ scanError' = TRUE
              /\ pc' = "loop"
              /\ UNCHANGED <<allSpots, page, hasNext>>
         ELSE /\ UNCHANGED scanError
              /\ IF Len(data) > 0
                   THEN /\ allSpots' = allSpots \o data
                        /\ page' = page + 1
                        /\ hasNext' = IF IsLastPage(Len(data)) THEN FALSE
                                                                ELSE hasNext
                   ELSE /\ hasNext' = FALSE
                        /\ UNCHANGED <<allSpots, page>>
              /\ pc' = IF hasNext' THEN "scan" ELSE "loop"
  /\ UNCHANGED <<config, calc, store, rangeStart, loopVars>>

(***************************************************************************)
(* The AI country script (updateAllCountries): a count, then ranges of     *)
(* rangeStep + 1 rows read without .order().                               *)
(***************************************************************************)
rangeStep == pageSize - 1

\* lines 28-35: select('*', { count: 'exact', head: true })
CountRows ==
  /\ pc = "count"
  /\ \E countError \in BOOLEAN :
       /\ pc' = IF countError THEN "done" ELSE "scan"
       /\ scanError' = countError
  /\ UNCHANGED <<config, calc, store, page, rangeStart, hasNext, reads, allSpots,
                 loopVars>>

\* if (data.length < rangeStep + 1) break
IsLastRange(n) == n < rangeStep + 1

\* lines 45-63
ScanRange ==
  /\ pc = "scan"
  /\ script = "aiCountries"
  /\ reads' = reads + 1
  /\ \E error \in BOOLEAN, ord \in Orders(N) :
       LET data == Range(Rows(ord), rangeStart, rangeStart + rangeStep) IN
       IF error
         THEN \* return
              /\ scanError' = TRUE
              /\ pc' = "done"
              /\ UNCHANGED <<allSpots, rangeStart>>
         ELSE /\ UNCHANGED scanError
              /\ IF Len(data) = 0
                   THEN /\ pc' = "loop"
                        /\ UNCHANGED <<allSpots, rangeStart>>
                   ELSE /\ allSpots' = allSpots \o data
                        /\ IF IsLastRange(Len(data))
                             THEN /\ pc' = "loop"
                                  /\ UNCHANGED rangeStart
                             ELSE /\ pc' = "scan"
                                  /\ rangeStart' = rangeStart + rangeStep + 1
  /\ UNCHANGED <<config, calc, store, page, hasNext, loopVars>>

(***************************************************************************)
(* translate-spots.js, update-countries.js and the batched year script     *)
(* read their targets in one request, without .order() and without range.  *)
(***************************************************************************)
\* translate-spots.js:38
NeedsEnglish(s) == \/ Falsy(s["description_en"])
                   \/ s["description_en"] = Str("World Heritage Site", 19)
\* a selection on the English country column instead
NoCountry(s) == s["country"] = Null
\* update-countries.js:25
NoCountryJa(s) == s["country_ja"] = Null
\* the year script, line 24
NoYear(s) == s["year"] = Null
\* a selection without the filter on the image column
AnyImage(s) == s["image_url"] = s["image_url"]
\* update-images.js:24
NoImage(s) == s["image_url"] = Null

FetchTargets ==
  /\ pc = "scan"
  /\ script \in {"translateSpots", "updateCountries", "yearBatch",
                 "wikiImages"}
  /\ reads' = reads + 1
  /\ \E error \in BOOLEAN, ord \in Orders(N) :
       IF error
         THEN \* return
              /\ scanError' = TRUE
              /\ pc' = "done"
              /\ UNCHANGED allSpots
         ELSE /\ UNCHANGED scanError
              /\ pc' = "loop"
              /\ allSpots' =
                   CASE script = "translateSpots" ->
                          SelectSeq(Range(Rows(ord), 0, MaxRows - 1), NeedsEnglish)
                     [] script = "updateCountries" ->
                          Project(Range(SelectSeq(Rows(ord), NoCountryJa),
                                        0, MaxRows - 1), {"id", "name"})
                     [] script = "wikiImages" ->
                          Project(Range(SelectSeq(Rows(ord), NoImage),
                                        0, MaxRows - 1),
                                  {"id", "name", "name_en"})
                     [] OTHER ->
                          Range(SelectSeq(Rows(ord), NoYear), 0, MaxRows - 1)
  /\ UNCHANGED <<config, calc, store, page, rangeStart, hasNext, loopVars>>

(***************************************************************************)
(* The text-inference provider (Gemini).  generateContent either throws or *)
(* returns a text; the scripts strip code fences and parse the rest.       *)
(***************************************************************************)
\* an exception, reduced to what the handlers test in its message
Error(class, has429, hasQuota) ==
  [class |-> class, has429 |-> has429, hasQuota |-> hasQuota]
\* "[429 Too Many Requests] Resource has been exhausted (check Quota)"
RateLimitError == Error("rate", TRUE, TRUE)
\* network failure, timeout, 5xx
OtherError == Error("other", FALSE, FALSE)
\* TypeError: Cannot read properties of undefined
TypeError == Error("type", FALSE, FALSE)
\* the error object returned by a failed update
UpdateError == Error("db", FALSE, FALSE)

\* a response text: its payload and whether it is wrapped in ```json fences
Text(body, fenced) == [body |-> body, fenced |-> fenced]
JsonBodies == {"good", "empty", "nolocale"}
GarbageBodies == {"garbage", "garbage429"}
JsonTexts == {Text(b, f) : b \in JsonBodies \cup GarbageBodies, f \in {FALSE}}
               \cup {Text("good", TRUE)}

\* .replace(/```json/g, "").replace(/```/g, "").trim()
StripFences(text) == [text EXCEPT !.fenced = FALSE]

\* JSON.parse: a SyntaxError quotes the offending text in its message
JSONparse(text) ==
  IF text.fenced \/ text.body \in GarbageBodies
    THEN [ok |-> FALSE,
          e |-> Error("parse", text.body = "garbage429", FALSE)]
    ELSE [ok |-> TRUE, json |-> text.body]

\* the answers of generateContent to a prompt that asks for JSON
Threw(e) == [threw |-> TRUE, e |-> e]
Returned(text) == [threw |-> FALSE, text |-> text]
GeminiErrors == {RateLimitError, OtherError}
GeminiJson == {Threw(e) : e \in GeminiErrors}
                \cup {Returned(t) : t \in JsonTexts}

\* the provider still has a rate-limit answer to give
Allowed(ans) == ans.threw /\ ans.e.class = "rate" => rlLeft > 0

\* the value of json[L].name / json[L].desc in a parsed response
Member(json, c) == IF json = "good" THEN New(c) ELSE EmptyStr

\* the test of the catch blocks: e.message.includes("429"), and in
\* translate-spots.js also e.message.includes('Quota')
IsRateLimit(s, e) == IF s = "translateSpots" THEN e.has429 \/ e.hasQuota
                                             ELSE e.has429

\* a catch block without the i-- of the retry
AfterCatchNoRewind(s, e, idx) == idx + 1

\* a catch block that retries a row once and then gives it up
AfterCatchOnce(s, e, idx) ==
  IF IsRateLimit(s, e) /\ cur.out # "rate" THEN idx ELSE idx + 1

\* the loop index after a catch block: i-- and the loop's i++ cancel out
AfterCatch(s, e, idx) == IF IsRateLimit(s, e) THEN idx ELSE idx + 1
\* what the catch block adds to the trace: the 60 s (30 s) pause on a rate
\* limit; otherwise nothing, or the 2 s pause of translate-spots.js
CatchTrace(s, e) == IF IsRateLimit(s, e) THEN <<Cooldown>>
                    ELSE IF s = "translateSpots" THEN <<Delay>> ELSE <<>>

(***************************************************************************)
(* tools/translate-all.js: translate every scanned row into 5 languages.   *)
(***************************************************************************)
TranslateAllFields(json) == [c \in LocaleFields |-> Member(json, c)]

TranslateAllStep ==
  /\ pc = "loop"
  /\ script = "translateAll"
  /\ i < Len(allSpots)
  /\ LET item == allSpots[i + 1]
         k == item["id"].n
     IN \E ans \in GeminiJson, updateError \in BOOLEAN :
          /\ Allowed(ans)
          /\ IF ans.threw
               THEN Commit({k}, ans.e.class,
                           <<Call("gemini", ans.e.class)>>
                             \o CatchTrace(script, ans.e),
                           store, AfterCatch(script, ans.e, i))
               ELSE LET p == JSONparse(StripFences(ans.text)) IN
                    IF ~p.ok
                      THEN Commit({k}, "parse",
                                  <<Call("gemini", "text")>>
                                    \o CatchTrace(script, p.e),
                                  store, AfterCatch(script, p.e, i))
                    ELSE IF p.json = "nolocale"
                      THEN Commit({k}, "type",
                                  <<Call("gemini", "text")>>
                                    \o CatchTrace(script, TypeError),
                                  store, AfterCatch(script, TypeError, i))
                    ELSE IF updateError
                      THEN Commit({k}, "db",
                                  <<Call("gemini", "text"),
                                    Write(k, TranslateAllFields(p.json), FALSE)>>
                                    \o CatchTrace(script, UpdateError),
                                  store, AfterCatch(script, UpdateError, i))
                    ELSE Commit({k}, "ok",
                                <<Call("gemini", "text"),
                                  Write(k, TranslateAllFields(p.json), TRUE),
                                  Delay>>,
                                Update(store, k, TranslateAllFields(p.json)),
                                i + 1)

(***************************************************************************)
(* Image lookup: Wikipedia page thumbnails and Pixabay photo search.       *)
(***************************************************************************)
ImageAnswers == {"hit", "none", "throw"}
NoFields == [c \in {} |-> Null]
NoLookup == [url |-> Null, trace |-> <<>>]

\* the answers of a source that is asked; one placeholder when it is not
Asked(asked) == IF asked THEN ImageAnswers ELSE {"none"}
\* the results of an update that is issued; one placeholder when none is
WriteResults(issued) == IF issued THEN BOOLEAN ELSE {TRUE}

\* (spot.name_en || spot.name): the column the search name is taken from
SearchName(spot, L) == IF Falsy(spot[NameOf(L)]) THEN "name" ELSE NameOf(L)

\* the URL a source returns for a query
Url(prov, q) == Str(prov \o ":" \o q, 30)

\* a request to an image source, with its query and its answer
Lookup(prov, q, ans) == [ev |-> "call", prov |-> prov, res |-> q, ans |-> ans]

\* tools/update-images.js fetchFromWikipedia: a thumbnail URL or null
fetchFromWikipedia(q, a) ==
  [url |-> IF a = "hit" THEN Url("wikipedia", q) ELSE Null,
   trace |-> <<Lookup("wikipedia", q, a)>>]

\* a fetchFromPixabay that sends its request whether or not a key is set
fetchFromPixabayAnyway(q, a) ==
  [url |-> IF a = "hit" THEN Url("pixabay", q) ELSE Null,
   trace |-> <<Lookup("pixabay", q, a)>>]

\* tools/update-images.js fetchFromPixabay: null without a key, else a hit or null
fetchFromPixabay(q, a) ==
  IF ~PIXABAY_KEY THEN NoLookup
  ELSE [url |-> IF a = "hit" THEN Url("pixabay", q) ELSE Null,
        trace |-> <<Lookup("pixabay", q, a)>>]

\* what the caller of fetchImage can tell of a source's answer: both an
\* empty answer and an exception fall through to the next source
Seen(a) == IF a = "hit" THEN "hit" ELSE "miss"

\* a fetchImage that asks Pixabay even after a Wikipedia hit
fetchImageAskAll(q, a1, a2) ==
  [url |-> IF a1 = "hit" THEN Url("wikipedia", q)
           ELSE IF a2 = "hit" /\ PIXABAY_KEY THEN Url("pixabay", q) ELSE Null,
   trace |-> <<Lookup("wikipedia", q, Seen(a1))>>
               \o (IF PIXABAY_KEY THEN <<Lookup("pixabay", q, Seen(a2))>>
                                  ELSE <<>>)]

\* the full-repair script's fetchImage: Wikipedia, then Pixabay, same query
fetchImage(q, a1, a2) ==
  IF a1 = "hit"
    THEN [url |-> Url("wikipedia", q),
          trace |-> <<Lookup("wikipedia", q, Seen(a1))>>]
  ELSE IF PIXABAY_KEY
    THEN [url |-> IF a2 = "hit" THEN Url("pixabay", q) ELSE Null,
          trace |-> <<Lookup("wikipedia", q, Seen(a1)),
                      Lookup("pixabay", q, Seen(a2))>>]
  ELSE [url |-> Null, trace |-> <<Lookup("wikipedia", q, Seen(a1))>>]

(***************************************************************************)
(* tools/update-images.js: look an image up for every scanned row.         *)
(***************************************************************************)
UpdateImagesStep ==
  /\ pc = "loop"
  /\ script = "updateImages"
  /\ i < Len(allSpots)
  /\ LET spot == allSpots[i + 1]
         k == spot["id"].n
         searchNameEn == SearchName(spot, "en")
         searchNameJa == SearchName(spot, "ja")
     IN \E a1 \in ImageAnswers :
        \E a2 \in Asked(a1 # "hit" /\ PIXABAY_KEY) :
        \E a3 \in Asked(a1 # "hit" /\ a2 # "hit" /\ PIXABAY_KEY) :
        \E wok \in WriteResults(a1 = "hit" \/ a2 = "hit" \/ a3 = "hit") :
          LET w == fetchFromWikipedia(searchNameEn, a1)
              x == IF Falsy(w.url) THEN fetchFromPixabay(searchNameEn, a2)
                                   ELSE NoLookup
              first2 == IF Falsy(w.url) THEN x.url ELSE w.url
              y == IF Falsy(first2) THEN fetchFromPixabay(searchNameJa, a3)
                                    ELSE NoLookup
              imageUrl == IF Falsy(first2) THEN y.url ELSE first2
              calls == w.trace \o x.trace \o y.trace
              fields == [c \in {"image_url"} |-> imageUrl]
          IN IF Nullish(spot[searchNameEn]) \/ Nullish(spot[searchNameJa])
               THEN \* lines 89-90: .split of a missing name
                    Crash({k}, <<>>, store)
             ELSE IF ~Falsy(imageUrl)
               THEN LogAndDelay(spot, {k}, "none",
                                calls \o <<Write(k, fields, wok)>>,
                                IF wok THEN Update(store, k, fields) ELSE store)
               ELSE LogAndDelay(spot, {k}, "none", calls, store)

(***************************************************************************)
(* update-images.js: ask Wikipedia for an image of every row without one.  *)
(***************************************************************************)
WikiImagesStep ==
  /\ pc = "loop"
  /\ script = "wikiImages"
  /\ i < Len(allSpots)
  /\ LET spot == allSpots[i + 1]
         k == spot["id"].n
         \* lines 38-40: name_en if it is truthy, name otherwise
         searchName == SearchName(spot, "en")
     IN \E a \in ImageAnswers :
        \E wok \in WriteResults(a = "hit") :
          LET imageUrl == Url("wikipedia", searchName)
              fields == [c \in {"image_url"} |-> imageUrl]
          IN IF Nullish(spot[searchName])
               THEN \* .split of a missing name, outside the try block
                    Crash({k}, <<>>, store)
             ELSE IF a = "hit"
               THEN Commit({k}, "none",
                           <<Lookup("wikipedia", searchName, a),
                             Write(k, fields, wok), Delay>>,
                           IF wok THEN Update(store, k, fields) ELSE store,
                           i + 1)
               ELSE \* no thumbnail, or an exception that the catch ignores
                    Commit({k}, "none",
                           <<Lookup("wikipedia", searchName, a), Delay>>,
                           store, i + 1)

(***************************************************************************)
(* The full-repair script: image, then translation, then one save per row. *)
(***************************************************************************)
\* lines 93-98: a short Japanese description or any missing description
needsTranslation(spot) ==
  \/ Falsy(spot["description_ja"])
  \/ spot["description_ja"].len < 20
  \/ Falsy(spot["description_en"])
  \/ Falsy(spot["description_zh"])
  \/ Falsy(spot["description_es"])
  \/ Falsy(spot["description_fr"])

\* lines 124-132: the category and the five locale pairs of the response
FullRepairFields(json) ==
  [c \in LocaleFields \cup {"category"} |->
     IF c = "category"
       THEN (IF json = "good" THEN Str("history", 7) ELSE EmptyStr)
       ELSE Member(json, c)]

\* lines 147-160: save what was collected, print the progress, then sleep
FullRepairSave(k, out, trace, updates, wok) ==
  IF DOMAIN updates # {}
    THEN LogAndDelay(allSpots[i + 1], {k}, out,
                     trace \o <<Write(k, updates, wok)>>,
                     IF wok THEN Update(store, k, updates) ELSE store)
    ELSE LogAndDelay(allSpots[i + 1], {k}, out, trace, store)

\* lines 134-142: the catch block of the translation part
FullRepairCatch(k, e, trace, updates, wok) ==
  IF IsRateLimit(script, e)
    THEN \* i--; continue
         Commit({k}, e.class, trace \o <<Cooldown>>, store,
                AfterCatch(script, e, i))
    ELSE FullRepairSave(k, e.class, trace, updates, wok)

FullRepairStep ==
  /\ pc = "loop"
  /\ script = "fullRepair"
  /\ i < Len(allSpots)
  /\ LET spot == allSpots[i + 1]
         k == spot["id"].n
     IN \E a1 \in Asked(Falsy(spot["image_url"])) :
        \E a2 \in Asked(Falsy(spot["image_url"]) /\ a1 # "hit" /\ PIXABAY_KEY) :
        \E ans \in (IF needsTranslation(spot) THEN GeminiJson
                                              ELSE {Threw(OtherError)}) :
        \E wok \in WriteResults(~(ans.threw /\ ans.e.class = "rate")) :
          LET searchName == SearchName(spot, "en")
              \* line 79: .split of a missing name
              noName == Falsy(spot["image_url"]) /\ Nullish(spot[searchName])
              img == IF Falsy(spot["image_url"])
                       THEN fetchImage(searchName, a1, a2) ELSE NoLookup
              updates == IF ~Falsy(img.url)
                           THEN [c \in {"image_url"} |-> img.url]
                           ELSE NoFields
          IN IF noName
               THEN Crash({k}, <<>>, store)
             ELSE IF ~needsTranslation(spot)
               THEN FullRepairSave(k, "none", img.trace, updates, wok)
               ELSE /\ Allowed(ans)
                    /\ IF ans.threw
                         THEN FullRepairCatch(k, ans.e,
                                img.trace \o <<Call("gemini", ans.e.class)>>,
                                updates, wok)
                         ELSE LET p == JSONparse(StripFences(ans.text))
                                  t == img.trace \o <<Call("gemini", "text")>>
                              IN IF ~p.ok
                                   THEN FullRepairCatch(k, p.e, t, updates, wok)
                                 ELSE IF p.json = "nolocale"
                                   THEN FullRepairCatch(k, TypeError, t,
                                                        updates, wok)
                                 ELSE FullRepairSave(k, "ok", t,
                                        FullRepairFields(p.json) @@ updates,
                                        wok)

(***************************************************************************)
(* tools/fix-category.js: classify every scanned row as nature or history. *)
(***************************************************************************)
CategoryTexts == {Text(b, FALSE) : b \in {"nature", "something else"}}
GeminiWord == {Threw(e) : e \in GeminiErrors}
                \cup {Returned(t) : t \in CategoryTexts}

\* line 70: text.includes("nature") ? "nature" : "history"
CategoryOf(text) == IF text.body = "nature" THEN Str("nature", 6)
                                            ELSE Str("history", 7)

FixCategoryStep ==
  /\ pc = "loop"
  /\ script = "fixCategory"
  /\ i < Len(allSpots)
  /\ LET item == allSpots[i + 1]
         k == item["id"].n
     IN \E ans \in GeminiWord, wok \in BOOLEAN :
          /\ Allowed(ans)
          /\ IF ans.threw
               THEN Commit({k}, ans.e.class,
                           <<Call("gemini", ans.e.class)>>
                             \o CatchTrace(script, ans.e),
                           store, AfterCatch(script, ans.e, i))
               ELSE LET fields == [c \in {"category"} |-> CategoryOf(ans.text)]
                    IN Commit({k}, "ok",
                              <<Call("gemini", "text"), Write(k, fields, wok),
                                Delay>>,
                              IF wok THEN Update(store, k, fields) ELSE store,
                              i + 1)

(***************************************************************************)
(* translate-spots.js: translate the rows without English description.     *)
(***************************************************************************)
\* throw new Error("JSON Parse Error") of the inner try
JsonParseError == Error("parse", FALSE, FALSE)

\* lines 77-82: the four foreign locale pairs of one response element
TranslateSpotsFields(json) ==
  [c \in LocaleFields \ {"name_ja", "description_ja"} |-> Member(json, c)]

\* the id the response element carries: the prompt's id or another one
ResponseIds(k) == {k} \cup ((1..MaxN) \ {k})

TranslateSpotsStep ==
  /\ pc = "loop"
  /\ script = "translateSpots"
  /\ i < Len(allSpots)
  /\ LET item == allSpots[i + 1]
         k == item["id"].n
     IN \E ans \in GeminiJson :
        \E tid \in (IF ~ans.threw /\ ans.text.body \in {"good", "empty"}
                      THEN ResponseIds(k) ELSE {k}) :
        \E wok \in BOOLEAN :
          /\ Allowed(ans)
          /\ IF ans.threw
               THEN Commit({k}, ans.e.class,
                           <<Call("gemini", ans.e.class)>>
                             \o CatchTrace(script, ans.e),
                           store, AfterCatch(script, ans.e, i))
               ELSE LET p == JSONparse(StripFences(ans.text)) IN
                    IF ~p.ok
                      THEN Commit({k}, "parse",
                                  <<Call("gemini", "text")>>
                                    \o CatchTrace(script, JsonParseError),
                                  store, AfterCatch(script, JsonParseError, i))
                    ELSE IF p.json = "nolocale"
                      THEN \* the response is not an array: for..of throws
                           Commit({k}, "type",
                                  <<Call("gemini", "text")>>
                                    \o CatchTrace(script, TypeError),
                                  store, AfterCatch(script, TypeError, i))
                    ELSE Commit({k}, "ok",
                                <<Call("gemini", IF tid = k THEN "text"
                                                            ELSE "other id"),
                                  Write(tid, TranslateSpotsFields(p.json), wok),
                                  Delay>>,
                                IF wok
                                  THEN Update(store, tid,
                                              TranslateSpotsFields(p.json))
                                  ELSE store,
                                i + 1)

(***************************************************************************)
(* The AI country script: ask the text provider for the Japanese country   *)
(* name of every scanned row.                                              *)
(***************************************************************************)
CountryTexts == {Text(b, FALSE) : b \in {"country", "blank"}}
GeminiCountry == {Threw(e) : e \in GeminiErrors}
                   \cup {Returned(t) : t \in CountryTexts}

\* line 87: text().trim().replace(/\n/g, '')
CountryName(text) == IF text.body = "blank" THEN EmptyStr ELSE New("country_ja")

AiCountriesStep ==
  /\ pc = "loop"
  /\ script = "aiCountries"
  /\ i < Len(allSpots)
  /\ LET spot == allSpots[i + 1]
         k == spot["id"].n
     IN \E ans \in GeminiCountry :
        \E updateError \in WriteResults(~ans.threw /\ ans.text.body # "blank") :
          /\ Allowed(ans)
          /\ IF ans.threw
               THEN \* catch, then sleep(1000)
                    Commit({k}, ans.e.class,
                           <<Call("gemini", ans.e.class), Delay>>,
                           store, i + 1)
               ELSE LET countryName == CountryName(ans.text)
                        fields == [c \in {"country_ja"} |-> countryName]
                    IN IF Falsy(countryName)
                         THEN Commit({k}, "blank",
                                     <<Call("gemini", "text"), Delay>>,
                                     store, i + 1)
                       ELSE IF updateError
                         THEN Commit({k}, "db",
                                     <<Call("gemini", "text"),
                                       Write(k, fields, FALSE), Delay>>,
                                     store, i + 1)
                       ELSE Commit({k}, "ok",
                                   <<Call("gemini", "text"),
                                     Write(k, fields, TRUE), Delay>>,
                                   Update(store, k, fields), i + 1)

(***************************************************************************)
(* update-countries.js: reverse-geocode the rows without country_ja.       *)
(***************************************************************************)
\* the answers of the geocoder: a country feature, an empty feature list,
\* a JSON body without `features`, or a failed request
GeoAnswers == {"feature", "nofeature", "nolist", "throw"}

\* an update that also carries the English pair, emptied
CountryUpdateWithNames(a, countryName) ==
  [c \in {"country", "country_ja", "name_en", "description_en"} |->
     IF c \in {"country", "country_ja"} THEN countryName ELSE Null]

\* lines 48-59: the payload of the update, by the geocoder's answer
CountryUpdate(a, countryName) ==
  IF a = "feature" THEN [c \in {"country", "country_ja"} |-> countryName]
                   ELSE [c \in {"country_ja"} |-> Str("sonota", 3)]

UpdateCountriesStep ==
  /\ pc = "loop"
  /\ script = "updateCountries"
  /\ i < Len(allSpots)
  /\ LET spot == allSpots[i + 1]
         k == spot["id"].n
     IN \E a \in GeoAnswers, wok \in BOOLEAN :
          LET countryName == New("country")
              fields == CountryUpdate(a, countryName)
          IN IF a = "throw"
               THEN Commit({k}, "other", <<Call("mapbox", a), Delay>>,
                           store, i + 1)
               ELSE Commit({k}, IF a = "feature" THEN "ok" ELSE "noresult",
                           <<Call("mapbox", a), Write(k, fields, wok), Delay>>,
                           IF wok THEN Update(store, k, fields) ELSE store,
                           i + 1)

(***************************************************************************)
(* The batched year script: one text-inference call per BATCH_SIZE rows.   *)
(***************************************************************************)
\* 10 in the script, scaled down with the store
BATCH_SIZE == 2

\* the values a response may give as a year
\* numbers, null, a word, and numbers written as JSON strings ("1603", "0")
YearValues == {Num(1603), Num(-2500), Num(0), Null, Str("unknown", 7),
               NumStr(<<1, 6, 0, 3>>), NumStr(<<0>>)}

\* the value of a string of decimal digits
RECURSIVE DigitsValue(_)
DigitsValue(ds) == IF ds = <<>> THEN 0
                   ELSE 10 * DigitsValue(SubSeq(ds, 1, Len(ds) - 1)) + ds[Len(ds)]

\* isNaN(v): a string that is not a number converts to NaN; null converts to 0
isNaN(v) == v.t = "str"
\* parseInt(v) of a number or of a string of digits
parseInt(v) == IF v.t = "numstr" THEN Num(DigitsValue(v.digits)) ELSE Num(v.n)

\* slice(i, i + BATCH_SIZE)
Batch(rows, idx) == SubSeq(rows, idx + 1, Min(idx + BATCH_SIZE, Len(rows)))
BatchIds(rows, idx) == {Batch(rows, idx)[j]["id"].n : j \in 1..Len(Batch(rows, idx))}

\* the parsed response of the provider, as the loop over its entries sees it
Parsed(value) == [ev |-> "parsed", value |-> value]

\* a loop over the entries that stops after its first entry
RECURSIVE YearWritesOne(_, _, _)
YearWritesOne(keys, yearMap, oks) ==
  IF keys = {} THEN <<>>
  ELSE LET k == CHOOSE x \in keys : \A y \in keys : x <= y
       IN IF ~Falsy(yearMap[k]) /\ ~isNaN(yearMap[k])
            THEN <<Write(k, [c \in {"year"} |-> parseInt(yearMap[k])], oks)>>
            ELSE <<>>

\* lines 48-53: the writes for the entries of yearMap, in ascending key order
RECURSIVE YearWrites(_, _, _)
YearWrites(keys, yearMap, oks) ==
  IF keys = {} THEN <<>>
  ELSE LET k == CHOOSE x \in keys : \A y \in keys : x <= y
           rest == YearWrites(keys \ {k}, yearMap, oks)
       IN IF ~Falsy(yearMap[k]) /\ ~isNaN(yearMap[k])
            THEN <<Write(k, [c \in {"year"} |-> parseInt(yearMap[k])], oks)>>
                   \o rest
            ELSE rest

\* the table after the successful writes of a trace, applied in order
RECURSIVE Apply(_, _)
Apply(st, trace) ==
  IF trace = <<>> THEN st
  ELSE Apply(IF Head(trace).ev = "write" /\ Head(trace).ok
               THEN Update(st, Head(trace).id, Head(trace).fields)
               ELSE st,
             Tail(trace))

YearAnswers == {Threw(e) : e \in GeminiErrors}
                 \cup {Returned(Text(b, FALSE)) : b \in {"yearmap", "garbage"}}

YearBatchStep ==
  /\ pc = "loop"
  /\ script \in {"yearBatch", "yearPaged"}
  /\ i < Len(allSpots)
  /\ LET unit == BatchIds(allSpots, i)
     IN \E ans \in YearAnswers :
        \E keys \in (IF ~ans.threw /\ ans.text.body = "yearmap"
                       THEN SUBSET Ids ELSE {{}}) :
        \E year \in (IF keys # {} THEN YearValues ELSE {Null}) :
        \E wok \in WriteResults(keys # {}) :
          /\ Allowed(ans)
          /\ IF ans.threw
               THEN Commit(unit, ans.e.class,
                           <<Call("gemini", ans.e.class), Delay>>,
                           store, i + BATCH_SIZE)
               ELSE LET p == JSONparse(StripFences(ans.text)) IN
                    IF ~p.ok
                      THEN Commit(unit, "parse",
                                  <<Call("gemini", "text"), Delay>>,
                                  store, i + BATCH_SIZE)
                      ELSE LET yearMap == [k \in keys |-> year]
                               writes == YearWrites(keys, yearMap, wok)
                           IN Commit(unit, "ok",
                                     <<Call("gemini", "text"), Parsed(yearMap)>>
                                       \o writes \o <<Delay>>,
                                     Apply(store, writes), i + BATCH_SIZE)

(***************************************************************************)
(* The paged year script: while (hasMore), read the first page of the rows *)
(* whose year is null, work through it in batches, and read again.         *)
(***************************************************************************)
\* reads counted before the counter stops
MaxReads == 2

\* lines 32-47: the read at the top of the while loop
ReadFirstPage ==
  /\ pc = "scan"
  /\ script = "yearPaged"
  /\ reads' = Min(reads + 1, MaxReads)
  /\ i' = 0
  /\ \E error \in BOOLEAN, ord \in Orders(N) :
       LET spots == Range(SelectSeq(Rows(ord), NoYear), 0, pageSize - 1)
       IN IF error
            THEN \* break
                 /\ scanError' = TRUE
                 /\ pc' = "done"
                 /\ UNCHANGED <<allSpots, hasNext>>
          ELSE IF spots = <<>>
            THEN \* hasMore = false; break
                 /\ hasNext' = FALSE
                 /\ pc' = "done"
                 /\ allSpots' = spots
                 /\ UNCHANGED scanError
          ELSE /\ allSpots' = spots
               /\ pc' = "loop"
               /\ UNCHANGED <<scanError, hasNext>>
  /\ UNCHANGED <<config, calc, store, page, rangeStart, rlLeft, cur>>

\* lines 53 and 84-87: the batches of the page are done, back to the read
NextPage ==
  /\ pc = "loop"
  /\ script = "yearPaged"
  /\ i >= Len(allSpots)
  /\ pc' = "scan"
  /\ UNCHANGED <<config, calc, store, scanVars, loopVars>>

Finish ==
  /\ pc = "loop"
  /\ i >= Len(allSpots)
  /\ pc' = "done"
  /\ UNCHANGED <<config, calc, store, scanVars, loopVars>>

Next ==
  \/ ScanPage
  \/ CountRows
  \/ ScanRange
  \/ FetchTargets
  \/ TranslateAllStep
  \/ FullRepairStep
  \/ UpdateImagesStep
  \/ FixCategoryStep
  \/ TranslateSpotsStep
  \/ AiCountriesStep
  \/ UpdateCountriesStep
  \/ YearBatchStep
  \/ Finish

Spec == Init /\ [][Next]_vars

(***************************************************************************)
(* The two backfill scripts that select the rows still lacking their       *)
(* column, run once and, after being stopped anywhere in their loop or     *)
(* after their end, run once more on the table as it then is.              *)
(***************************************************************************)
BackfillScripts == {"updateCountries", "wikiImages"}

\* the ids of a list of rows
IdsOf(rows) == {rows[j]["id"].n : j \in 1..Len(rows)}

InitBackfill ==
  /\ script \in BackfillScripts
  /\ env = (IF script = "wikiImages"
              THEN {"VITE_SUPABASE_URL", "VITE_SUPABASE_KEY"}
              ELSE EnvNames(script))
  /\ prev = NoRun
  /\ PIXABAY_KEY = TRUE
  /\ \E n \in 0..MaxN :
       \E tpl \in [1..n -> Templates \cup {"nameless"}] :
         store = [k \in 1..n |-> MakeSpot(tpl[k], k)]
  /\ pc = "scan"
  /\ page = 0
  /\ rangeStart = 0
  /\ hasNext = TRUE
  /\ scanError = FALSE
  /\ reads = 0
  /\ allSpots = <<>>
  /\ i = 0
  /\ rlLeft = MaxRateLimits
  /\ cur = NoIter
  /\ calc = NoCalc

\* the process is stopped between two iterations, has crashed or has ended,
\* and the script is started again: every variable of main() is new, the
\* table stays as it is
Restart ==
  /\ pc \in {"loop", "done", "crashed"}
  /\ ~scanError
  /\ prev = NoRun
  /\ prev' = [run |-> TRUE, selected |-> IdsOf(allSpots), stopped |-> i,
              store |-> store]
  /\ pc' = "scan"
  /\ page' = 0
  /\ rangeStart' = 0
  /\ hasNext' = TRUE
  /\ reads' = 0
  /\ allSpots' = <<>>
  /\ i' = 0
  /\ rlLeft' = MaxRateLimits
  /\ cur' = NoIter
  /\ UNCHANGED <<script, PIXABAY_KEY, env, calc, store, scanError>>

NextBackfill ==
  \/ FetchTargets
  \/ UpdateCountriesStep
  \/ WikiImagesStep
  \/ Finish
  \/ Restart

BackfillSpec == InitBackfill /\ [][NextBackfill]_vars

(***************************************************************************)
(* The dataset scanner alone: the reads of the scripts that go through the *)
(* whole table, up to the start of their loops.                            *)
(***************************************************************************)
InitScanner == Init /\ script \in ScannerScripts

NextScanner ==
  \/ ScanPage
  \/ CountRows
  \/ ScanRange

ScannerSpec == InitScanner /\ [][NextScanner]_vars

(***************************************************************************)
(* The runs of the two scripts that look images up.                        *)
(***************************************************************************)
InitImages == Init /\ script \in ImageScripts

NextImages ==
  \/ ScanPage
  \/ FullRepairStep
  \/ UpdateImagesStep
  \/ Finish

ImagesSpec == InitImages /\ [][NextImages]_vars

(***************************************************************************)
(* The runs of the two scripts that fill in the country.                   *)
(***************************************************************************)
InitCountries == Init /\ script \in {"updateCountries", "aiCountries"}

NextCountries ==
  \/ CountRows
  \/ ScanRange
  \/ FetchTargets
  \/ AiCountriesStep
  \/ UpdateCountriesStep
  \/ Finish

CountriesSpec == InitCountries /\ [][NextCountries]_vars

(***************************************************************************)
(* The runs of the three scripts whose catch block rewinds the loop index  *)
(* and falls through to the end of the iteration.                          *)
(***************************************************************************)
RetryingScripts == {"translateAll", "translateSpots", "fixCategory"}

InitRetry == Init /\ script \in RetryingScripts

NextRetry ==
  \/ ScanPage
  \/ FetchTargets
  \/ TranslateAllStep
  \/ FixCategoryStep
  \/ TranslateSpotsStep
  \/ Finish

RetrySpec == InitRetry /\ [][NextRetry]_vars

(***************************************************************************)
(* The runs of the four scripts that retry, the full repair included, with *)
(* a provider that is short of quota only briefly.                         *)
(***************************************************************************)
\* the rate limits of a provider that recovers at once
FewRateLimits == 1

InitRecover ==
  /\ script \in RetryingScripts \cup {"fullRepair"}
  /\ env = EnvNames(script)
  /\ prev = NoRun
  /\ PIXABAY_KEY \in (IF script \in ImageScripts THEN BOOLEAN ELSE {TRUE})
  /\ \E n \in 0..MaxN :
       \E tpl \in [1..n -> Templates] :
         /\ script \in ScannerScripts =>
              Cardinality({k \in 1..n : tpl[k] # "full"}) <= MaxGaps
         /\ store = [k \in 1..n |-> MakeSpot(tpl[k], k)]
  /\ pc = "scan"
  /\ page = 0
  /\ rangeStart = 0
  /\ hasNext = TRUE
  /\ scanError = FALSE
  /\ reads = 0
  /\ allSpots = <<>>
  /\ i = 0
  /\ rlLeft = FewRateLimits
  /\ cur = NoIter
  /\ calc = NoCalc

NextRecover ==
  \/ ScanPage
  \/ FetchTargets
  \/ TranslateAllStep
  \/ FullRepairStep
  \/ FixCategoryStep
  \/ TranslateSpotsStep
  \/ Finish

RecoverSpec == InitRecover /\ [][NextRecover]_vars

(***************************************************************************)
(* The runs of the batched year script.                                    *)
(***************************************************************************)
InitYears ==
  /\ script = "yearBatch"
  /\ env = EnvNames(script)
  /\ prev = NoRun
  /\ PIXABAY_KEY = TRUE
  /\ \E n \in 0..MaxN :
       \E tpl \in [1..n -> Templates \cup {"zero"}] :
         store = [k \in 1..n |-> MakeSpot(tpl[k], k)]
  /\ pc = "scan"
  /\ page = 0
  /\ rangeStart = 0
  /\ hasNext = TRUE
  /\ scanError = FALSE
  /\ reads = 0
  /\ allSpots = <<>>
  /\ i = 0
  /\ rlLeft = MaxRateLimits
  /\ cur = NoIter
  /\ calc = NoCalc

NextYears ==
  \/ FetchTargets
  \/ YearBatchStep
  \/ Finish

YearsSpec == InitYears /\ [][NextYears]_vars

(***************************************************************************)
(* The runs of the paged year script, which take a step as long as one is  *)
(* possible.                                                               *)
(***************************************************************************)
InitPaged ==
  /\ script = "yearPaged"
  /\ env = EnvNames("yearBatch")
  /\ prev = NoRun
  /\ PIXABAY_KEY = TRUE
  /\ \E n \in 0..MaxN :
       \E tpl \in [1..n -> {"fresh", "zero"}] :
         store = [k \in 1..n |-> MakeSpot(tpl[k], k)]
  /\ pc = "scan"
  /\ page = 0
  /\ rangeStart = 0
  /\ hasNext = TRUE
  /\ scanError = FALSE
  /\ reads = 0
  /\ allSpots = <<>>
  /\ i = 0
  \* the catch block of this script treats every failure alike
  /\ rlLeft = 0
  /\ cur = NoIter
  /\ calc = NoCalc

NextPaged ==
  \/ ReadFirstPage
  \/ YearBatchStep
  \/ NextPage

PagedSpec == InitPaged /\ [][NextPaged]_vars /\ WF_vars(NextPaged)

(***************************************************************************)
(* The runs of the three scripts that walk the whole table, over tables    *)
(* that may hold a row without name.                                       *)
(***************************************************************************)
ProgressScripts == {"translateAll", "fullRepair", "updateImages"}

InitProgress ==
  /\ script \in ProgressScripts
  /\ env = EnvNames(script)
  /\ prev = NoRun
  /\ PIXABAY_KEY \in (IF script \in ImageScripts THEN BOOLEAN ELSE {TRUE})
  /\ \E n \in 0..MaxN :
       \E tpl \in [1..n -> Templates \cup {"nameless"}] :
         /\ Cardinality({k \in 1..n : tpl[k] # "full"}) <= MaxGaps
         /\ store = [k \in 1..n |-> MakeSpot(tpl[k], k)]
  /\ pc = "scan"
  /\ page = 0
  /\ rangeStart = 0
  /\ hasNext = TRUE
  /\ scanError = FALSE
  /\ reads = 0
  /\ allSpots = <<>>
  /\ i = 0
  /\ rlLeft = MaxRateLimits
  /\ cur = NoIter
  /\ calc = NoCalc

NextProgress ==
  \/ ScanPage
  \/ TranslateAllStep
  \/ FullRepairStep
  \/ UpdateImagesStep
  \/ Finish

ProgressSpec == InitProgress /\ [][NextProgress]_vars

(***************************************************************************)
(* The runs of the three scripts that read the table page by page before   *)
(* their loop and go on with what they have when a read fails.             *)
(***************************************************************************)
InitScanError ==
  /\ script \in ProgressScripts
  /\ env = EnvNames(script)
  /\ prev = NoRun
  /\ PIXABAY_KEY \in (IF script \in ImageScripts THEN BOOLEAN ELSE {TRUE})
  /\ \E n \in 0..MaxN :
       \E tpl \in [1..n -> Templates] :
         /\ Cardinality({k \in 1..n : tpl[k] # "full"}) <= MaxGaps
         /\ store = [k \in 1..n |-> MakeSpot(tpl[k], k)]
  /\ pc = "scan"
  /\ page = 0
  /\ rangeStart = 0
  /\ hasNext = TRUE
  /\ scanError = FALSE
  /\ reads = 0
  /\ allSpots = <<>>
  /\ i = 0
  /\ rlLeft = FewRateLimits
  /\ cur = NoIter
  /\ calc = NoCalc

NextScanError ==
  \/ ScanPage
  \/ TranslateAllStep
  \/ FullRepairStep
  \/ UpdateImagesStep
  \/ Finish

ScanErrorSpec == InitScanError /\ [][NextScanError]_vars

(***************************************************************************)
(* A run from the start of the process, with any subset of its environment *)
(* variables set.                                                          *)
(***************************************************************************)
\* largest table of a run observed from its start
MaxStartRows == 1

InitStart ==
  /\ script \in Scripts
  /\ env \in SUBSET EnvNames(script)
  /\ prev = NoRun
  /\ PIXABAY_KEY \in (IF script \in ImageScripts THEN BOOLEAN ELSE {TRUE})
  /\ \E n \in 0..MaxStartRows :
       \E tpl \in [1..n -> Templates] :
         store = [k \in 1..n |-> MakeSpot(tpl[k], k)]
  /\ pc = "start"
  /\ page = 0
  /\ rangeStart = 0
  /\ hasNext = TRUE
  /\ scanError = FALSE
  /\ reads = 0
  /\ allSpots = <<>>
  /\ i = 0
  /\ rlLeft = MaxRateLimits
  /\ cur = NoIter
  /\ calc = NoCalc

NextStart == Startup \/ Next

StartSpec == InitStart /\ [][NextStart]_vars

(***************************************************************************)
(* The globe view (src/components/Globe.jsx): the year typed into the      *)
(* history filter, with its era, and the label shown for a stored year.    *)
(* Strings are sequences of characters and digits here, so that formatting *)
(* and parsing are computed.                                               *)
(***************************************************************************)
\* largest year magnitude typed into the filter
MaxYear == 2500

\* the decimal digits of a natural number
RECURSIVE Digits(_)
Digits(n) == IF n < 10 THEN <<n>> ELSE Digits(n \div 10) \o <<n % 10>>

\* Math.abs
Abs(n) == IF n < 0 THEN -n ELSE n
\* `${n}` of a template literal
Template(n) == IF n < 0 THEN <<"-">> \o Digits(-n) ELSE Digits(n)

\* lines 220-222: the signed year of the filter, 0 when the input is unusable
TargetYear(historyYearInput, historyEra) ==
  IF ~Falsy(historyYearInput) /\ ~isNaN(historyYearInput)
    THEN LET targetYear == parseInt(historyYearInput).n
         IN IF historyEra = "BC" THEN -targetYear ELSE targetYear
    ELSE 0

\* a label that prints the year with its sign
getYearLabelSigned(year) ==
  IF year = 0 THEN <<>>
  ELSE IF year < 0 THEN <<"B", "C", " ">> \o Template(year)
  ELSE <<"A", "D", " ">> \o Template(year)

\* lines 480-483
getYearLabel(year) ==
  IF year = 0 THEN <<>>
  ELSE IF year < 0 THEN <<"B", "C", " ">> \o Template(Abs(year))
  ELSE <<"A", "D", " ">> \o Template(year)

\* no enrichment script is running
Idle ==
  /\ script = "none"
  /\ PIXABAY_KEY = TRUE
  /\ env = {}
  /\ prev = NoRun
  /\ store = <<>>
  /\ pc = "done"
  /\ page = 0
  /\ rangeStart = 0
  /\ hasNext = FALSE
  /\ scanError = FALSE
  /\ reads = 0
  /\ allSpots = <<>>
  /\ i = 0
  /\ rlLeft = 0
  /\ cur = NoIter

InitGlobe ==
  /\ Idle
  /\ \E historyEra \in {"AD", "BC"}, M \in 1..MaxYear :
       calc = [fn |-> "year", done |-> FALSE, historyEra |-> historyEra,
               M |-> M, historyYearInput |-> NumStr(Digits(M))]

\* the filter computes its signed year and the view labels that year
ConvertYear ==
  /\ calc.fn = "year"
  /\ ~calc.done
  /\ LET targetYear == TargetYear(calc.historyYearInput, calc.historyEra)
     IN calc' = [fn |-> "year", done |-> TRUE, historyEra |-> calc.historyEra,
                 M |-> calc.M, historyYearInput |-> calc.historyYearInput,
                 targetYear |-> targetYear, label |-> getYearLabel(targetYear)]
  /\ UNCHANGED <<config, store, pc, scanVars, loopVars>>

NextGlobe == ConvertYear

GlobeSpec == InitGlobe /\ [][NextGlobe]_vars

(***************************************************************************)
(* The detectors of a weak locale pair: the full repair (part_004 93-98),  *)
(* the English translation run (translate-spots.js 38) and the globe view  *)
(* (part_007 301-318).  Each is applied to a row in which everything but   *)
(* one locale pair is present and long.                                    *)
(***************************************************************************)
\* texts written in Japanese script (transliterated here)
JapaneseName == Str("Himeji-jo (kanji)", 3)
SekaiIsan == Str("sekai isan (kanji)", 4)
LatinName == Str("Himeji Castle", 13)
WorldHeritageSite == Str("World Heritage Site", 19)
MediumStr == Str("medium", 15)

\* /[hiragana, katakana, kanji]/.test(v)
HasJapaneseChars(v) == v \in {JapaneseName, SekaiIsan}
\* v.includes("World Heritage")
IncludesWorldHeritage(v) == v = WorldHeritageSite

PairNames == {Null, EmptyStr, LatinName, JapaneseName}
PairDescriptions == {Null, EmptyStr, ShortStr, MediumStr, Old("description"),
                     WorldHeritageSite, SekaiIsan}

\* a complete row with one locale pair replaced
SpotWithPair(L, name, desc) ==
  [FullSpot(1) EXCEPT ![NameOf(L)] = name, ![DescOf(L)] = desc]

\* part_007 lines 301-318: needsTranslation of the displayed data
DisplayNeedsTranslation(selectedLocation, currentLang) ==
  LET nameL == selectedLocation[NameOf(currentLang)]
      descL == selectedLocation[DescOf(currentLang)]
      displayName == IF Falsy(nameL) THEN selectedLocation["name"] ELSE nameL
      displayDesc == IF Falsy(descL) THEN selectedLocation["description"] ELSE descL
      isJapaneseMode == currentLang = "ja"
      hasJapaneseChars == ~Falsy(displayName) /\ HasJapaneseChars(displayName)
      isWeakDesc == \/ Falsy(displayDesc)
                    \/ displayDesc.len < 10
                    \/ IncludesWorldHeritage(displayDesc)
                    \/ displayDesc = SekaiIsan
  IN isJapaneseMode /\ (~hasJapaneseChars \/ isWeakDesc)

Detectors == {"fullRepair", "translateSpots", "display"}

\* what a detector says of a row whose pair of locale L is under test
Flags(detector, L, spot) ==
  CASE detector = "fullRepair" -> needsTranslation(spot)
    [] detector = "translateSpots" -> NeedsEnglish(spot)
    [] OTHER -> DisplayNeedsTranslation(spot, L)

InitGap ==
  /\ Idle
  /\ \E detector \in Detectors, L \in Locales,
        name \in PairNames, desc \in PairDescriptions :
       \* the translation run looks at the English pair only
       /\ detector = "translateSpots" => L = "en"
       /\ calc = [fn |-> "gap", done |-> FALSE, detector |-> detector, L |-> L,
               spot |-> SpotWithPair(L, name, desc)]

\* the detector looks at the row
DetectGap ==
  /\ calc.fn = "gap"
  /\ ~calc.done
  /\ calc' = [fn |-> "gap", done |-> TRUE, detector |-> calc.detector,
              L |-> calc.L, spot |-> calc.spot,
              flagged |-> Flags(calc.detector, calc.L, calc.spot)]
  /\ UNCHANGED <<config, store, pc, scanVars, loopVars>>

NextGap == DetectGap

GapSpec == InitGap /\ [][NextGap]_vars

(***************************************************************************)
(* Vocabulary of the properties.                                           *)
(***************************************************************************)
\* positions of the events of one kind in a trace
Events(trace, kind) == {j \in 1..Len(trace) : trace[j].ev = kind}
Cooldowns(trace) == Cardinality(Events(trace, "cooldown"))
\* update calls of a trace that target id k
WritesTo(trace, k) == {j \in Events(trace, "write") : trace[j].id = k}

\* a column holds nothing: null or the empty string
Absent(v) == v = Null \/ v = EmptyStr

\* the field gap detector over a stored row
ImageGap(row) == Absent(row["image_url"])
CountryGap(row) == Absent(row["country"]) /\ Absent(row["country_ja"])
YearGap(row) == row["year"] = Null
CategoryGap(row) == Absent(row["category"])
LocaleGap(row, L) == \/ Absent(row[NameOf(L)])
                     \/ Absent(row[DescOf(L)])
                     \/ (L = "ja" /\ row[DescOf(L)].len < 20)
GapFields(row) ==
  (IF ImageGap(row) THEN {"image_url"} ELSE {})
    \cup (IF CountryGap(row) THEN {"country", "country_ja"} ELSE {})
    \cup (IF YearGap(row) THEN {"year"} ELSE {})
    \cup (IF CategoryGap(row) THEN {"category"} ELSE {})
    \cup UNION {IF LocaleGap(row, L) THEN {NameOf(L), DescOf(L)} ELSE {} :
                L \in Locales}
NoGaps(row) == GapFields(row) = {}

\* the scripts whose catch block tests for the rate-limit indicator
RetryScripts == {"translateAll", "translateSpots", "fullRepair", "fixCategory"}
\* the scripts that call the text-inference provider
TextScripts == RetryScripts \cup {"aiCountries", "yearBatch"}
\* the scanner has finished and no read failed
ScanComplete == script \in ScannerScripts /\ pc \in {"loop", "done"}
                  /\ ~scanError

\* the provider answered the latest attempt with a usable response for the
\* row it was asked about
Succeeded == cur.out = "ok" /\ Call("gemini", "text") \in
                                 {cur.trace[j] : j \in 1..Len(cur.trace)}

\* rows the loop index moves by after a unit of work
Stride == IF script = "yearBatch" THEN BATCH_SIZE ELSE 1

\* the columns the provider attempt of a script computes
ComputedFields ==
  CASE script = "translateAll" -> LocaleFields
    [] script = "translateSpots" -> LocaleFields \ {"name_ja", "description_ja"}
    [] script = "fullRepair" -> LocaleFields \cup {"category"}
    [] script = "fixCategory" -> {"category"}
    [] script = "aiCountries" -> {"country_ja"}
    [] script = "updateCountries" -> {"country", "country_ja"}
    [] script = "yearBatch" -> {"year"}
    [] OTHER -> {"image_url"}

(***************************************************************************)
(* C1: retry on rate limit.  In the scripts that test for the rate-limit   *)
(* indicator, a rate-limited attempt writes nothing, is followed by        *)
(* exactly one cooldown pause and leaves the loop index on the same row;   *)
(* the next iteration runs on that row again, and when the provider then   *)
(* succeeds it issues exactly one update for the row without any further   *)
(* pause.                                                                  *)
(***************************************************************************)
C1_RetryOnRateLimit ==
  script \in RetryScripts =>
    /\ cur.out = "rate" =>
         /\ i = cur.idx
         /\ Cooldowns(cur.trace) = 1
         /\ cur.trace[Len(cur.trace)] = Cooldown
         /\ Events(cur.trace, "write") = {}
    /\ cur.retryOf # -1 =>
         /\ cur.idx = cur.retryOf
         /\ Succeeded =>
              /\ Cooldowns(cur.trace) = 0
              /\ \A k \in cur.unit :
                   Cardinality(WritesTo(cur.trace, k)) = 1

\* a row was rate-limited, retried at once, and the retry succeeded
C1_Witness ==
  /\ script \in RetryScripts
  /\ cur.retryOf # -1
  /\ Succeeded
  /\ \E j \in Events(cur.trace, "write") : cur.trace[j].ok

(***************************************************************************)
(* C2: idempotence.  An iteration on a row without gaps issues no update.  *)
(***************************************************************************)
C2_NoWriteWithoutGaps ==
  \A k \in cur.unit :
    NoGaps(cur.before[k]) => WritesTo(cur.trace, k) = {}

(***************************************************************************)
(* C3: pagination completeness.  When the scan of an unchanged table ends  *)
(* without read error, the accumulated list holds every row exactly once.  *)
(***************************************************************************)
C3_EveryRowOnce ==
  ScanComplete =>
    /\ Len(allSpots) = N
    /\ \A k \in Ids :
         Cardinality({j \in 1..Len(allSpots) : allSpots[j]["id"].n = k}) = 1

(***************************************************************************)
(* C4: page-read count.  As claimed: a completed scan of N rows has issued *)
(* exactly ceil(N / pageSize) reads.                                       *)
(***************************************************************************)
CeilDiv(a, b) == (a + b - 1) \div b

C4_CeilReads == ScanComplete => reads = CeilDiv(N, pageSize)

(***************************************************************************)
(* C4, amended: a completed scan of N rows has issued exactly              *)
(* floor(N / pageSize) + 1 reads: the scan only ends on a page shorter     *)
(* than pageSize, which is an extra, empty page when N is 0 or a multiple  *)
(* of pageSize.                                                            *)
(***************************************************************************)
C4_FloorPlusOneReads ==
  ScanComplete =>
    /\ reads = (N \div pageSize) + 1
    /\ N % pageSize # 0 => reads = CeilDiv(N, pageSize)
    /\ N % pageSize = 0 => reads = CeilDiv(N, pageSize) + 1

\* a scan of a non-empty table whose size is a multiple of the page size
C4_Witness == ScanComplete /\ N > 0 /\ N % pageSize = 0 /\ reads > 1

(***************************************************************************)
(* C5: the payload of every update holds only columns that were gaps of    *)
(* the row when the iteration began.                                       *)
(***************************************************************************)
C5_PayloadOnlyGaps ==
  \A j \in Events(cur.trace, "write") :
    cur.trace[j].id \in DOMAIN cur.before =>
      DOMAIN cur.trace[j].fields \subseteq GapFields(cur.before[cur.trace[j].id])

(***************************************************************************)
(* C6: no worsening.  No update replaces a column that held a value.       *)
(***************************************************************************)
C6_NoFilledFieldReplaced ==
  \A j \in Events(cur.trace, "write") :
    (cur.trace[j].ok /\ cur.trace[j].id \in DOMAIN cur.before) =>
      \A c \in DOMAIN cur.trace[j].fields :
        Absent(cur.before[cur.trace[j].id][c])

(***************************************************************************)
(* C7: an iteration on a row without gaps calls no external provider.      *)
(***************************************************************************)
C7_NoCallWithoutGaps ==
  (\A k \in cur.unit : NoGaps(cur.before[k])) =>
    Events(cur.trace, "call") = {}

(***************************************************************************)
(* C8: rate limits are never dropped.  In every script that calls the      *)
(* text provider, a rate-limited unit is followed by a cooldown and the    *)
(* loop index stays on it.                                                 *)
(***************************************************************************)
C8_RateLimitNeverDropped ==
  (script \in TextScripts /\ cur.out = "rate") =>
    /\ i = cur.idx
    /\ Cooldowns(cur.trace) >= 1

(***************************************************************************)
(* C9: a response that cannot be parsed is skipped: no cooldown, the loop  *)
(* index advances instead of being rewound, and no update carrying the     *)
(* columns the response was to provide is issued.                          *)
(***************************************************************************)
C9_ParseFailureSkips ==
  cur.out = "parse" =>
    /\ Cooldowns(cur.trace) = 0
    /\ i = cur.idx + Stride
    /\ \A j \in Events(cur.trace, "write") :
         DOMAIN cur.trace[j].fields \cap ComputedFields = {}

(***************************************************************************)
(* C10: skip on other errors.  After an attempt that failed with anything  *)
(* but a rate limit, no update carrying the computed columns has taken     *)
(* effect, the loop index has advanced by one unit and those columns are   *)
(* stored as before.                                                       *)
(***************************************************************************)
C10_SkipOnOtherError ==
  cur.out \in {"other", "parse", "type", "db"} =>
    /\ i = cur.idx + Stride
    /\ \A j \in Events(cur.trace, "write") :
         cur.trace[j].ok => DOMAIN cur.trace[j].fields \cap ComputedFields = {}
    /\ \A k \in cur.unit : \A c \in ComputedFields :
         store[k][c] = cur.before[k][c]

(***************************************************************************)
(* C11: inter-call delay.  Between any two consecutive calls to an         *)
(* external provider there is a delay step or a cooldown: inside one       *)
(* iteration, and from the last call of an iteration to the first call of  *)
(* the next.                                                               *)
(***************************************************************************)
Pauses(trace) == Events(trace, "delay") \cup Events(trace, "cooldown")
\* a pause separates any two calls of the trace
PausedBetweenCalls(trace) ==
  \A a, b \in Events(trace, "call") :
    a < b => \E m \in Pauses(trace) : a < m /\ m < b
\* a pause follows the last call of the trace
PausedAfterCalls(trace) ==
  \A a \in Events(trace, "call") : \E m \in Pauses(trace) : a < m

C11_DelayBetweenCalls ==
  [][loopVars' # loopVars =>
       /\ PausedBetweenCalls(cur'.trace)
       /\ Events(cur'.trace, "call") # {} => PausedAfterCalls(cur.trace)]_vars

(***************************************************************************)
(* C12: image fallback order.  The image sources are asked in the order    *)
(* Wikipedia (English name), Pixabay (English name), Pixabay (Japanese     *)
(* name), as far as the script has them; no source is asked after a hit,   *)
(* the chain goes on until a hit or its end, and an update that carries    *)
(* image_url carries the URL of the source that hit.                       *)
(***************************************************************************)
IsLookup(e) == e.ev = "call" /\ e.prov \in {"wikipedia", "pixabay"}
\* the image requests of a trace, in order
Lookups(trace) == SelectSeq(trace, IsLookup)

Source(prov, q) == [prov |-> prov, q |-> q]
UsesKey(s) == s.prov = "pixabay"
HasKey(s) == UsesKey(s) => PIXABAY_KEY
\* the sources a script has for a row, in the order of its code
Chain(spot) ==
  SelectSeq(
    IF script = "updateImages"
      THEN <<Source("wikipedia", SearchName(spot, "en")),
             Source("pixabay", SearchName(spot, "en")),
             Source("pixabay", SearchName(spot, "ja"))>>
      ELSE <<Source("wikipedia", SearchName(spot, "en")),
             Source("pixabay", SearchName(spot, "en"))>>,
    HasKey)

\* the iteration looked for an image
LookedUp == /\ script \in ImageScripts
            /\ cur.idx >= 0
            /\ (script = "fullRepair" =>
                  Falsy(allSpots[cur.idx + 1]["image_url"]))

C12_FallbackOrder ==
  LookedUp =>
    LET calls == Lookups(cur.trace)
        chain == Chain(allSpots[cur.idx + 1])
        n == Len(calls)
    IN /\ n >= 1 /\ n <= Len(chain)
       /\ \A j \in 1..n : Source(calls[j].prov, calls[j].res) = chain[j]
       /\ \A j \in 1..(n - 1) : calls[j].ans # "hit"
       /\ n < Len(chain) => calls[n].ans = "hit"
       /\ \A j \in Events(cur.trace, "write") :
            "image_url" \in DOMAIN cur.trace[j].fields =>
              /\ calls[n].ans = "hit"
              /\ cur.trace[j].fields["image_url"] = Url(calls[n].prov, calls[n].res)
              /\ cur.trace[j].ok =>
                   \A k \in cur.unit :
                     store[k]["image_url"] = Url(calls[n].prov, calls[n].res)
       /\ (script = "updateImages" /\ calls[n].ans = "hit") =>
            \E j \in Events(cur.trace, "write") :
              "image_url" \in DOMAIN cur.trace[j].fields

\* the first source had nothing, the second one hit and its URL was stored
C12_Witness ==
  /\ LookedUp
  /\ Len(Chain(allSpots[cur.idx + 1])) = 3
  /\ Len(Lookups(cur.trace)) = 2
  /\ Lookups(cur.trace)[1].ans = "none"
  /\ Lookups(cur.trace)[2].ans = "hit"
  /\ \A k \in cur.unit :
       store[k]["image_url"] =
         Url("pixabay", SearchName(allSpots[cur.idx + 1], "en"))

(***************************************************************************)
(* C13: exhausting the image chain is not an error.  In                    *)
(* tools/update-images.js, when no source of the chain hits (each returns  *)
(* nothing or throws) the iteration issues no update, ends with its pause  *)
(* and moves the loop to the next row; a source that throws is followed by *)
(* the next source of the chain; and without a Pixabay key no request goes *)
(* to Pixabay, in either image script.                                     *)
(***************************************************************************)
\* no image request of the trace was answered with a hit
Exhausted(trace) == \A j \in 1..Len(Lookups(trace)) : Lookups(trace)[j].ans # "hit"

C13_ExhaustionIsNoError ==
  (script \in ImageScripts /\ cur.idx >= 0) =>
    LET calls == Lookups(cur.trace)
        chain == Chain(allSpots[cur.idx + 1])
    IN /\ (script = "updateImages" /\ Exhausted(cur.trace)) =>
            /\ Len(calls) = Len(chain)
            /\ Events(cur.trace, "write") = {}
            /\ cur.before = store
            /\ cur.trace[Len(cur.trace)] = Delay
            /\ i = cur.idx + 1
            /\ pc \in {"loop", "done"}
       /\ \A j \in 1..Len(calls) :
            (calls[j].ans = "throw" /\ j < Len(chain)) => j < Len(calls)
       /\ Exhausted(cur.trace) =>
            \A j \in Events(cur.trace, "write") :
              "image_url" \notin DOMAIN cur.trace[j].fields
       /\ ~PIXABAY_KEY => \A j \in 1..Len(calls) : calls[j].prov # "pixabay"

\* with a key: Wikipedia threw, both Pixabay requests came back empty, and
\* the loop went on without an update
C13_Witness ==
  /\ script = "updateImages"
  /\ PIXABAY_KEY
  /\ Len(Lookups(cur.trace)) = 3
  /\ Lookups(cur.trace)[1].ans = "throw"
  /\ Exhausted(cur.trace)
  /\ Events(cur.trace, "write") = {}
  /\ i = cur.idx + 1

(***************************************************************************)
(* C14: partial-merge write.  An update issued by a country script carries *)
(* only country columns, and after the iteration every other column of     *)
(* every row holds the value it held before.                               *)
(***************************************************************************)
CountryScripts == {"updateCountries", "aiCountries"}
CountryFields == {"country", "country_ja"}

C14_CountryWriteKeepsOtherFields ==
  script \in CountryScripts =>
    /\ \A j \in Events(cur.trace, "write") :
         /\ DOMAIN cur.trace[j].fields \subseteq CountryFields
         /\ cur.trace[j].id \in cur.unit
    /\ cur.idx >= 0 =>
         \A k \in Ids : \A c \in Columns \ CountryFields :
           store[k][c] = cur.before[k][c]

\* a country was written to a row that had an English name and description
C14_Witness ==
  /\ script \in CountryScripts
  /\ \E j \in Events(cur.trace, "write") :
       /\ cur.trace[j].ok
       /\ LET k == cur.trace[j].id
          IN /\ store[k]["country_ja"] # cur.before[k]["country_ja"]
             /\ ~Absent(cur.before[k]["name_en"])
             /\ ~Absent(cur.before[k]["description_en"])
             /\ store[k]["name_en"] = cur.before[k]["name_en"]
             /\ store[k]["description_en"] = cur.before[k]["description_en"]

(***************************************************************************)
(* C16: year sign round trip.  For a magnitude M > 0 the era BC gives the  *)
(* signed year -M and the era AD gives +M; the label of -M is "BC M" and   *)
(* the label of M is "AD M", so reading the label back gives the era and   *)
(* the magnitude that were entered.                                        *)
(***************************************************************************)
\* the era and the magnitude a label shows
LabelEra(label) == IF SubSeq(label, 1, 2) = <<"B", "C">> THEN "BC" ELSE "AD"
LabelMagnitude(label) == DigitsValue(SubSeq(label, 4, Len(label)))
Converted == calc.fn = "year" /\ calc.done

C16_YearSignRoundTrip ==
  Converted =>
    /\ calc.targetYear = (IF calc.historyEra = "BC" THEN -calc.M ELSE calc.M)
    /\ calc.label = (IF calc.historyEra = "BC" THEN <<"B", "C", " ">>
                                               ELSE <<"A", "D", " ">>)
                      \o Digits(calc.M)
    /\ LabelEra(calc.label) = calc.historyEra
    /\ LabelMagnitude(calc.label) = calc.M

\* BC 2500 was entered, stored as -2500 and labelled "BC 2500"
C16_Witness ==
  /\ Converted
  /\ calc.historyEra = "BC"
  /\ calc.M = 2500
  /\ calc.targetYear = -2500
  /\ calc.label = <<"B", "C", " ", 2, 5, 0, 0>>

(***************************************************************************)
(* C15: locale gap detection.  For every locale L, a pair whose            *)
(* description is non-null but shorter than the minimum length threshold   *)
(* is flagged as a gap, and a pair that is present, long enough and (for   *)
(* the Japanese locale) named in Japanese script is never flagged.         *)
(***************************************************************************)
\* the smallest and the largest length threshold of the detectors
MinThreshold == 10
MaxThreshold == 20
Detected == calc.fn = "gap" /\ calc.done
PairName == calc.spot[NameOf(calc.L)]
PairDesc == calc.spot[DescOf(calc.L)]
ShortPair == /\ ~Falsy(PairName)
             /\ PairDesc.t = "str"
             /\ PairDesc.len > 0
             /\ PairDesc.len < MinThreshold
StrongPair == /\ ~Falsy(PairName)
              /\ PairDesc.t = "str"
              /\ PairDesc.len >= MaxThreshold
              /\ (calc.L = "ja" => HasJapaneseChars(PairName))

C15_GapDetection ==
  Detected => /\ ShortPair => calc.flagged
              /\ StrongPair => ~calc.flagged

(***************************************************************************)
(* C17: fatal configuration.  When the store URL, the store key or the     *)
(* provider credential the script needs is absent at startup, the process  *)
(* exits before any read, provider call or update: nothing was read and no *)
(* row was attempted or changed.                                           *)
(***************************************************************************)
\* the required values of a script, each as the variables that can supply it
Needs(s) ==
  {{"VITE_SUPABASE_URL"}}
    \cup (IF s = "aiCountries"
            THEN {{"VITE_SUPABASE_ANON_KEY", "VITE_SUPABASE_KEY"}}
            ELSE {{"VITE_SUPABASE_KEY"}})
    \cup (CASE s = "updateImages" -> {}
            [] s = "updateCountries" -> {{"VITE_MAPBOX_TOKEN"}}
            [] s = "aiCountries" -> {{"VITE_GEMINI_API_KEY", "VITE_GOOGLE_API_KEY"}}
            [] OTHER -> {{"VITE_GEMINI_API_KEY"}})
RequiredAbsent == \E need \in Needs(script) : need \cap env = {}
\* nothing was read and no row was attempted
Untouched == /\ reads = 0
             /\ allSpots = <<>>
             /\ cur = NoIter
             /\ i = 0

C17_FatalConfiguration ==
  RequiredAbsent => /\ pc \in {"start", "exit"}
                    /\ Untouched
                    /\ \A k \in Ids : \E tpl \in Templates : store[k] = MakeSpot(tpl, k)

\* a translation run without its provider credential has exited at once
C17_Witness ==
  /\ script = "translateAll"
  /\ env = {"VITE_SUPABASE_URL", "VITE_SUPABASE_KEY"}
  /\ N = 1
  /\ pc = "exit"
  /\ Untouched

(***************************************************************************)
(* C18: forward progress.  A run that has ended has attempted every        *)
(* scanned row, whatever failed on single rows (provider error, parse      *)
(* error, write error, absent name): no failure on one row keeps the later *)
(* rows from being processed.                                              *)
(***************************************************************************)
\* the process has ended, by returning from main() or by an exception
Ended == pc \in {"done", "crashed", "exit"}

\* the rows attempted so far: those passed, and the one that ended the run
Attempted == IF pc = "crashed" THEN i + 1 ELSE i

C18_ForwardProgress == Ended => Attempted >= Len(allSpots)

(***************************************************************************)
(* C19: unbounded retry.  After a rate-limited attempt the next attempt is *)
(* on the same row, however many rate limits came before; a rate-limited   *)
(* attempt leaves the loop index on its row, issues no write, changes no   *)
(* row and ends with exactly one cooldown pause, and the loop is still     *)
(* running: the script counts no attempts and never gives a row up.        *)
(***************************************************************************)
C19_UnboundedRetry ==
  [][(script \in RetryScripts /\ loopVars' # loopVars) =>
       /\ cur.out = "rate" => /\ cur'.idx = cur.idx
                              /\ cur'.unit = cur.unit
       /\ cur'.out = "rate" => /\ i' = i
                               /\ i' = cur'.idx
                               /\ pc' = "loop"
                               /\ i' < Len(allSpots')
                               /\ store' = store
                               /\ Events(cur'.trace, "write") = {}
                               /\ Cooldowns(cur'.trace) = 1
                               /\ cur'.trace[Len(cur'.trace)] = Cooldown]_vars

\* every rate limit the provider had to give was spent on one row, attempt
\* after attempt, and the loop is still on that row
C19_Witness ==
  /\ script \in RetryScripts
  /\ MaxRateLimits > 1
  /\ rlLeft = 0
  /\ cur.out = "rate"
  /\ cur.retryOf = cur.idx
  /\ i = cur.idx
  /\ pc = "loop"

(***************************************************************************)
(* C20: omitted ids of a year batch.  When the response of a batch parses, *)
(* a row of the batch whose id is not among its keys gets no write and     *)
(* keeps its absent year, every row of the batch that the response gives a *)
(* usable year gets its write, the batch ends without error, and the loop  *)
(* goes on with the next batch.                                            *)
(***************************************************************************)
\* a year the script persists: numeric and not 0
UsableYear(v) == v.t = "num" /\ v.n # 0

C20_OmittedIdsStayGaps ==
  (script = "yearBatch" /\ cur.idx >= 0) =>
    \A j \in Events(cur.trace, "parsed") :
      LET yearMap == cur.trace[j].value
      IN /\ cur.out = "ok"
         /\ i = cur.idx + BATCH_SIZE
         /\ \A k \in cur.unit \ DOMAIN yearMap :
              /\ WritesTo(cur.trace, k) = {}
              /\ store[k]["year"] = cur.before[k]["year"]
              /\ cur.before[k]["year"] = Null => store[k]["year"] = Null
         /\ \A k \in cur.unit \cap DOMAIN yearMap :
              UsableYear(yearMap[k]) =>
                /\ Cardinality(WritesTo(cur.trace, k)) = 1
                /\ \A w \in WritesTo(cur.trace, k) :
                     /\ cur.trace[w].fields = [c \in {"year"} |-> yearMap[k]]
                     /\ cur.trace[w].ok => store[k]["year"] = yearMap[k]

\* of a batch of two rows the response named both but for one, whose year
\* stays absent while the others are stored, and another batch follows
C20_Witness ==
  /\ script = "yearBatch"
  /\ cur.idx >= 0
  /\ i < Len(allSpots)
  /\ Cardinality(cur.unit) = BATCH_SIZE
  /\ \E j \in Events(cur.trace, "parsed") :
       /\ Cardinality(cur.unit \ DOMAIN cur.trace[j].value) = 1
       /\ \A k \in cur.unit \ DOMAIN cur.trace[j].value :
            store[k]["year"] = Null
       /\ \A k \in cur.unit \cap DOMAIN cur.trace[j].value :
            store[k]["year"] = Num(1603)

(***************************************************************************)
(* C21: a reverse geocoding that returns no country feature is terminal.   *)
(* The iteration issues one update that sets country_ja to the sentinel    *)
(* and nothing else, asks the provider once, ends as a plain result and    *)
(* moves on to the next row; once that update is applied, a later run of   *)
(* the country backfill does not select the row.                           *)
(***************************************************************************)
Sentinel == Str("sonota", 3)
SecondRun == prev.run
NoFeature == /\ script = "updateCountries"
             /\ cur.out = "noresult"

C21_NoResultIsTerminal ==
  /\ NoFeature =>
       \A k \in cur.unit :
         /\ Cardinality(Events(cur.trace, "call")) = 1
         /\ Cardinality(WritesTo(cur.trace, k)) = 1
         /\ \A j \in WritesTo(cur.trace, k) :
              /\ cur.trace[j].fields = [c \in {"country_ja"} |-> Sentinel]
              /\ cur.trace[j].ok => store[k]["country_ja"] = Sentinel
         /\ cur.retryOf = -1
         /\ i = cur.idx + 1
         /\ pc # "crashed"
  /\ (script = "updateCountries" /\ SecondRun /\ pc = "loop") =>
       \A k \in DOMAIN prev.store :
         prev.store[k]["country_ja"] = Sentinel => k \notin IdsOf(allSpots)

\* the first run stored the sentinel for a row it had selected, and the
\* second run has selected its rows
C21_Witness ==
  /\ script = "updateCountries"
  /\ SecondRun
  /\ pc = "loop"
  /\ allSpots # <<>>
  /\ \E k \in prev.selected : prev.store[k]["country_ja"] = Sentinel

(***************************************************************************)
(* C22: the country gap predicate.  A row is selected for country          *)
(* inference exactly when both country and country_ja hold nothing, and no *)
(* row in which one of the two is present is sent to the country provider. *)
(***************************************************************************)
CountryAbsent(row) == Absent(row["country"]) /\ Absent(row["country_ja"])

C22_CountryGapPredicate ==
  script \in CountryScripts =>
    /\ (pc = "loop" /\ i = 0 /\ cur = NoIter) =>
         IdsOf(allSpots) = {k \in Ids : CountryAbsent(store[k])}
    /\ \A k \in cur.unit :
         Events(cur.trace, "call") # {} => CountryAbsent(cur.before[k])

(***************************************************************************)
(* C27: writes target only the unit in flight.  Every update of an         *)
(* iteration of the translation of single rows or of the year batches      *)
(* targets the id of a row of the unit, and no row outside the unit is     *)
(* changed by the iteration, whatever ids the response names.              *)
(***************************************************************************)
ResponseKeyedScripts == {"translateSpots", "yearBatch"}

C27_WritesTargetUnit ==
  (script \in ResponseKeyedScripts /\ cur.idx >= 0) =>
    /\ \A j \in Events(cur.trace, "write") : cur.trace[j].id \in cur.unit
    /\ \A k \in Ids \ cur.unit : store[k] = cur.before[k]

(***************************************************************************)
(* C23: the year gap predicate.  The rows selected for year inference are  *)
(* exactly the rows whose year is null; a row whose stored year is 0 is    *)
(* not selected, is in no batch and gets no update.                        *)
(***************************************************************************)
YearSelected ==
  (pc = "loop" /\ cur = NoIter) =>
    IdsOf(allSpots) = {k \in Ids : store[k]["year"] = Null}
ZeroYearNotSelected ==
  (pc = "loop" /\ cur = NoIter) =>
    \A k \in Ids : store[k]["year"] = Num(0) => k \notin IdsOf(allSpots)

C23_YearGapPredicate ==
  script = "yearBatch" =>
    /\ YearSelected
    /\ ZeroYearNotSelected
    /\ cur.idx >= 0 =>
         \A k \in Ids :
           cur.before[k]["year"] = Num(0) =>
             /\ WritesTo(cur.trace, k) = {}
             /\ store[k]["year"] = Num(0)

(***************************************************************************)
(* C24: processing order.  The rows a run works on are in ascending id     *)
(* order, and the next row to attempt is the row just attempted or the one *)
(* after it, so the ids attempted never decrease and the attempts on one   *)
(* row follow one another.                                                 *)
(***************************************************************************)
OrderedScripts == {"translateAll", "translateSpots", "aiCountries"}
Ascending(rows) ==
  \A a, b \in 1..Len(rows) : a < b => rows[a]["id"].n < rows[b]["id"].n
RewindsInPlace ==
  cur.idx >= 0 =>
    /\ i >= cur.idx
    /\ i <= cur.idx + 1

C24_ProcessingOrder ==
  script \in OrderedScripts => Ascending(allSpots) /\ RewindsInPlace

(***************************************************************************)
(* C25: restart after a stop.  When a run of the country or of the image   *)
(* backfill is stopped and the script is started again, the second run     *)
(* selects exactly the rows whose column is still null in the table: none  *)
(* of the rows the first run has written is selected, asked about or       *)
(* written again, and a second run that ends has attempted every row that  *)
(* was still a gap, each once.                                             *)
(***************************************************************************)
BackfillColumn == IF script = "wikiImages" THEN "image_url" ELSE "country_ja"
\* the rows the stopped run had selected and has filled in
WrittenBefore ==
  {k \in prev.selected : prev.store[k][BackfillColumn] # Null}
\* the rows that were gaps in the table when the script was started again
StillGaps ==
  {k \in DOMAIN prev.store : prev.store[k][BackfillColumn] = Null}
SecondSelection ==
  /\ script \in BackfillScripts
  /\ SecondRun
  /\ pc \in {"loop", "done"}
  /\ ~scanError

ImageHits(trace) ==
  {j \in Events(trace, "call") :
     "ans" \in DOMAIN trace[j] /\ trace[j].ans = "hit"}

C26_ImageHitIsSaved ==
  (script = "fullRepair" /\ cur.idx >= 0) =>
    \A k \in cur.unit :
      \A j \in ImageHits(cur.trace) :
        \E w \in WritesTo(cur.trace, k) :
          /\ w > j
          /\ "image_url" \in DOMAIN cur.trace[w].fields
          /\ cur.trace[w].fields["image_url"]
               = Url(cur.trace[j].prov, cur.trace[j].res)

(***************************************************************************)
(* C28: termination of the paged year backfill.  Every run of the script   *)
(* that re-reads the first page of the rows with a null year comes to its  *)
(* end, whatever the provider answers.                                     *)
(***************************************************************************)
C28_PagedYearTerminates == <>(pc = "done")

(***************************************************************************)
(* C29: scanner read error.  When the read of page p fails, the scanner    *)
(* reads nothing more (the failed read is the last one and is not          *)
(* repeated), the list holds exactly the rows of the pages 0..p-1, the     *)
(* loop works on rows of this list only, and a run that ends has           *)
(* attempted all of them.                                                  *)
(***************************************************************************)
ReadFailed == script \in ProgressScripts /\ scanError
\* the ids of the rows of the pages before page p, the table ordered by id
PagesBefore(p) == {k \in Ids : k <= p * pageSize}

C29_ScanErrorKeepsPages ==
  ReadFailed =>
    /\ pc \in {"loop", "done", "crashed"}
    /\ reads = page + 1
    /\ IdsOf(allSpots) = PagesBefore(page)
    /\ Len(allSpots) = Cardinality(PagesBefore(page))
    /\ cur.unit \subseteq PagesBefore(page)
    /\ \A j \in Events(cur.trace, "write") :
         cur.trace[j].id \in PagesBefore(page)
    /\ cur.idx >= 0 =>
         \A k \in Ids \ PagesBefore(page) : store[k] = cur.before[k]
    /\ pc = "done" => i = Len(allSpots)

\* the read of the second page failed, and the run has ended after working
\* on the rows of the first page while the table holds more rows
C29_Witness ==
  /\ ReadFailed
  /\ page = 1
  /\ pc = "done"
  /\ cur.idx = Len(allSpots) - 1
  /\ Len(allSpots) = pageSize
  /\ N > pageSize

(***************************************************************************)
(* C30: the year persistence filter.  For every id of a parsed response,   *)
(* an update is issued exactly when the returned year is a number other    *)
(* than 0 (as a JSON number or as a string of digits), and the update      *)
(* carries that number, sign included; 0, null and a value that is not a   *)
(* number cause no update for the id.                                      *)
(***************************************************************************)
\* the number a returned value stands for
NumericValue(v) == IF v.t = "numstr" THEN DigitsValue(v.digits) ELSE v.n
IsNumeric(v) == v.t \in {"num", "numstr"}
NonZeroNumeric(v) == IsNumeric(v) /\ NumericValue(v) # 0

C30_YearFilter ==
  (script = "yearBatch" /\ cur.idx >= 0) =>
    \A j \in Events(cur.trace, "parsed") :
      LET yearMap == cur.trace[j].value
      IN \A k \in DOMAIN yearMap :
           /\ WritesTo(cur.trace, k) # {} <=> NonZeroNumeric(yearMap[k])
           /\ \A w \in WritesTo(cur.trace, k) :
                cur.trace[w].fields
                  = [c \in {"year"} |-> Num(NumericValue(yearMap[k]))]
====
